---------------------------- MODULE Spec2Model ----------------------------
(***************************************************************************)
(* Model of src/qualifier/qualifier.py: make_table and its helpers         *)
(* make_horizontal_rule, pad_column and process_row.                       *)
(*                                                                         *)
(* A text is a sequence of characters; a character is a one-element token. *)
(* The box-drawing characters are written by their code points ("U+250C"   *)
(* is the top left corner), the line break of "\n".join as "\n".           *)
(*                                                                         *)
(* A cell value is a record [t, i, s]: t is the Python type of the value   *)
(* ("int" or "str"), i the value of an int, s the characters of a str.    *)
(* The argument labels is a record [present, items]: present is            *)
(* FALSE for labels=None (the default), TRUE for a list, whose items are   *)
(* in items.                                                               *)
(*                                                                         *)
(* assert statements are executed (the interpreter runs without -O).       *)
(***************************************************************************)
EXTENDS Integers, Sequences, FiniteSets

VARIABLES rows, labels, centered, pc, exc, ret

vars == <<rows, labels, centered, pc, exc, ret>>

---------------------------------------------------------------------------
(* Bounds of the inputs *)

MaxRows == 2

MaxCols == 2

---------------------------------------------------------------------------
(* Module constants, qualifier.py lines 5-11 *)

\* a slip in the table: the header rule with the junction of the top rule
BORDER_HeaderJunctionOfTop ==
    [top    |-> <<"U+250C", "U+252C", "U+2510">>,
     header |-> <<"U+251C", "U+252C", "U+2524">>,
     bottom |-> <<"U+2514", "U+2534", "U+2518">>]

BORDER ==
    [top    |-> <<"U+250C", "U+252C", "U+2510">>,
     header |-> <<"U+251C", "U+253C", "U+2524">>,
     bottom |-> <<"U+2514", "U+2534", "U+2518">>]

VERTICAL == "U+2502"

HORIZONTAL == "U+2500"

---------------------------------------------------------------------------
(* Python built-ins used by the code *)

\* the values passed as cells
PyInt(n) == [t |-> "int", i |-> n, s |-> <<>>]

PyStr(chars) == [t |-> "str", i |-> 0, s |-> chars]

Digit(d) == <<"0", "1", "2", "3", "4", "5", "6", "7", "8", "9">>[d + 1]

RECURSIVE NatStr(_)
NatStr(n) == IF n < 10 THEN <<Digit(n)>>
             ELSE NatStr(n \div 10) \o <<Digit(n % 10)>>

\* str(obj), and the {obj} of an f-string
Str(obj) ==
    CASE obj.t = "int" -> IF obj.i < 0 THEN <<"-">> \o NatStr(-obj.i)
                          ELSE NatStr(obj.i)
      [] obj.t = "str" -> obj.s

\* ch * n for a one-character string: empty when n <= 0
Repeat(ch, n) == [k \in 1..n |-> ch]

\* sep.join(parts)
RECURSIVE Join(_, _)
Join(sep, parts) ==
    IF Len(parts) = 0 THEN <<>>
    ELSE IF Len(parts) = 1 THEN parts[1]
    ELSE parts[1] \o sep \o Join(sep, Tail(parts))

\* max of a non-empty set of integers
Max(S) == CHOOSE m \in S : \A x \in S : x <= m

Min(S) == CHOOSE m \in S : \A x \in S : m <= x

\* math.ceil(pad / 2)
CeilHalf(pad) == (pad + 1) \div 2

---------------------------------------------------------------------------
(* make_horizontal_rule, lines 14-23 *)

\* a slip in line 20: the two padding spaces left out of the segments
make_horizontal_rule_NoPadding(column_widths, which) ==
    LET borders == BORDER[which]
    IN  <<borders[1]>>
        \o Join(<<borders[2]>>,
                [k \in 1..Len(column_widths) |->
                    Repeat(HORIZONTAL, column_widths[k])])
        \o <<borders[3]>>

make_horizontal_rule(column_widths, which) ==
    LET borders == BORDER[which]
    IN  <<borders[1]>>
        \o Join(<<borders[2]>>,
                [k \in 1..Len(column_widths) |->
                    Repeat(HORIZONTAL, column_widths[k] + 2)])
        \o <<borders[3]>>

---------------------------------------------------------------------------
(* pad_column, lines 59-69 *)

\* a slip in line 68: the extra space of an odd pad on the left
pad_column_ExtraLeft(column_object, column_width, isCentered) ==
    LET column_text == <<" ">> \o Str(column_object) \o <<" ">>
        pad == column_width + 2 - Len(column_text)
        left_pad == CeilHalf(pad)
        right_pad == pad \div 2
    IN  IF ~isCentered
        THEN column_text \o Repeat(" ", pad)
        ELSE Repeat(" ", left_pad) \o column_text \o Repeat(" ", right_pad)

\* a slip in line 66: the fill before the text
pad_column_FillFirst(column_object, column_width, isCentered) ==
    LET column_text == <<" ">> \o Str(column_object) \o <<" ">>
        pad == column_width + 2 - Len(column_text)
        left_pad == pad \div 2
        right_pad == CeilHalf(pad)
    IN  IF ~isCentered
        THEN Repeat(" ", pad) \o column_text
        ELSE Repeat(" ", left_pad) \o column_text \o Repeat(" ", right_pad)

pad_column(column_object, column_width, isCentered) ==
    LET column_text == <<" ">> \o Str(column_object) \o <<" ">>
        pad == column_width + 2 - Len(column_text)
        left_pad == pad \div 2
        right_pad == CeilHalf(pad)
    IN  IF ~isCentered
        THEN column_text \o Repeat(" ", pad)
        ELSE Repeat(" ", left_pad) \o column_text \o Repeat(" ", right_pad)

---------------------------------------------------------------------------
(* process_row, lines 72-81 *)

\* a slip in line 76: the cells joined by a space
process_row_JoinedBySpace(row, column_widths, isCentered) ==
    LET n == Min({Len(row), Len(column_widths)})
    IN  <<VERTICAL>>
        \o Join(<<" ">>,
                [k \in 1..n |-> pad_column(row[k], column_widths[k], isCentered)])
        \o <<VERTICAL>>

process_row(row, column_widths, isCentered) ==
    LET n == Min({Len(row), Len(column_widths)})   \* zip stops at the shorter
    IN  <<VERTICAL>>
        \o Join(<<VERTICAL>>,
                [k \in 1..n |-> pad_column(row[k], column_widths[k], isCentered)])
        \o <<VERTICAL>>

---------------------------------------------------------------------------
(* make_table, lines 26-56 *)

\* slips in line 37: >= 1 and <= 1 in the place of == 1
RowsSameLength_AtLeastOne(rs) ==
    Cardinality({Len(rs[r]) : r \in DOMAIN rs}) >= 1

RowsSameLength_AtMostOne(rs) ==
    Cardinality({Len(rs[r]) : r \in DOMAIN rs}) <= 1

\* line 37: the asserted expression
RowsSameLength(rs) == Cardinality({Len(rs[r]) : r \in DOMAIN rs}) = 1

\* line 37: n_cols is what the walrus assigned last, the last row's length
NCols(rs) == Len(rs[Len(rs)])

\* line 40: labels or []
LabelsOrEmpty(ls) == IF ls.present /\ ls.items # <<>> THEN ls.items ELSE <<>>

\* line 41: the asserted expression
LabelsMatch(n_cols, lbls) == n_cols = Len(lbls)

\* a slip in line 47: the label left out of the maximum
ColumnWidths_CellsOnly(rs, lbls, n_cols) ==
    [k \in 1..n_cols |-> Max({Len(Str(rs[r][k])) : r \in DOMAIN rs})]

\* lines 43-47
ColumnWidths(rs, lbls, n_cols) ==
    [k \in 1..n_cols |->
        LET len_label == IF lbls = <<>> THEN 0 ELSE Len(Str(lbls[k]))
        IN  Max({len_label} \cup {Len(Str(rs[r][k])) : r \in DOMAIN rs})]

\* lines 50-56
TableText(rs, lbls, column_widths, isCentered) ==
    Join(<<"\n">>,
         <<make_horizontal_rule(column_widths, "top")>>
         \o (IF lbls # <<>> THEN <<process_row(lbls, column_widths, isCentered)>>
             ELSE <<>>)
         \o (IF lbls # <<>> THEN <<make_horizontal_rule(column_widths, "header")>>
             ELSE <<>>)
         \o [r \in 1..Len(rs) |-> process_row(rs[r], column_widths, isCentered)]
         \o <<make_horizontal_rule(column_widths, "bottom")>>)

\* an exception leaves the call: its type and the line that raises it
Raise(type, line) ==
    [pc |-> "raise", exc |-> [type |-> type, line |-> line], ret |-> <<>>]

Return(text) ==
    [pc |-> "return", exc |-> [type |-> "none", line |-> 0], ret |-> text]

make_table(rs, ls, isCentered) ==
    IF ~RowsSameLength(rs) THEN Raise("AssertionError", 37)
    ELSE IF Len(rs) = 0 THEN Raise("NameError", 38)   \* n_cols was never bound
    ELSE LET n_cols == NCols(rs)
             lbls == LabelsOrEmpty(ls)
             \* line 43: zip(*rows) has as many columns as the shortest row
             n_zipped == Min({Len(rs[r]) : r \in DOMAIN rs})
             \* lines 44-47: the first i with no labels[i], with no cols[i]
             no_label == IF lbls # <<>> /\ Len(lbls) < n_cols
                         THEN Len(lbls) + 1 ELSE n_cols + 1
             no_col == IF n_zipped < n_cols THEN n_zipped + 1 ELSE n_cols + 1
         IN  IF lbls # <<>> /\ ~LabelsMatch(n_cols, lbls)
             THEN Raise("AssertionError", 41)
             ELSE IF no_label <= n_cols /\ no_label <= no_col
             THEN Raise("IndexError", 45)
             ELSE IF no_col <= n_cols
             THEN Raise("IndexError", 47)
             ELSE Return(TableText(rs, lbls,
                                   ColumnWidths(rs, lbls, n_cols), isCentered))

---------------------------------------------------------------------------
(* The calls: the arguments are chosen in Init, MakeTable runs the call *)

\* cell values: ints of the calls in lines 84-131
Cells == {PyInt(-12), PyInt(3)}

\* label values: an int, and a str that holds a vertical bar
LabelCells == {PyInt(12), PyStr(<<"A", VERTICAL, "B", "C">>)}

SeqsUpTo(S, n) == UNION {[1..k -> S] : k \in 0..n}

Init ==
    /\ rows \in SeqsUpTo(SeqsUpTo(Cells, MaxCols), MaxRows)
    /\ labels \in {[present |-> FALSE, items |-> <<>>]}
                  \cup {[present |-> TRUE, items |-> l] :
                            l \in SeqsUpTo(LabelCells, MaxCols)}
    /\ centered \in BOOLEAN
    /\ pc = "call"
    /\ exc = [type |-> "none", line |-> 0]
    /\ ret = <<>>

MakeTable ==
    /\ pc = "call"
    /\ LET r == make_table(rows, labels, centered)
       IN  /\ pc' = r.pc
           /\ exc' = r.exc
           /\ ret' = r.ret
    /\ UNCHANGED <<rows, labels, centered>>

Next == MakeTable

Spec == Init /\ [][Next]_vars

---------------------------------------------------------------------------
(* What the properties are stated in: the call's arguments and the lines   *)
(* of the returned text, read without the functions that built it.         *)

Called == pc # "call"

Returned == pc = "return"

Raised == pc = "raise"

\* the rows are ragged: two of them differ in length
Ragged == \E r1, r2 \in DOMAIN rows : Len(rows[r1]) # Len(rows[r2])

\* at least one row, and all rows of one length
RowsValid == Len(rows) >= 1 /\ ~Ragged

\* the column count of valid rows
N == Len(rows[1])

\* the number of data rows
R == Len(rows)

\* valid input: valid rows, and labels absent or of length N
ValidInput == RowsValid /\ (labels.present => Len(labels.items) = N)

\* the text cut at its line breaks
RECURSIVE SplitOn(_, _)
SplitOn(text, sep) ==
    IF \A p \in DOMAIN text : text[p] # sep THEN <<text>>
    ELSE LET p == Min({q \in DOMAIN text : text[q] = sep})
         IN  <<SubSeq(text, 1, p - 1)>>
             \o SplitOn(SubSeq(text, p + 1, Len(text)), sep)

OutLines == SplitOn(ret, "\n")

\* the stringified lengths of column i: its label, when labels are present,
\* and its cells
StrLens(i) ==
    {Len(Str(rows[r][i])) : r \in DOMAIN rows}
    \cup (IF labels.present THEN {Len(Str(labels.items[i]))} ELSE {})

\* the column width of the specification: the longest of them, plus 2
Width(i) == Max(StrLens(i)) + 2

RECURSIVE SumWidths(_)
SumWidths(n) == IF n = 0 THEN 0 ELSE SumWidths(n - 1) + Width(n)

\* the offset in a line of the i-th border, i = 0 for the left one
Offset(i) == SumWidths(i) + i + 1

BorderOffsets == {Offset(i) : i \in 0..N}

\* the labels are rendered: present and, the input being valid, not empty
Labelled == labels.present /\ N >= 1

\* the number of lines, and the length of each
LineCount == IF Labelled THEN R + 4 ELSE R + 2

LineLength == IF N >= 1 THEN Offset(N) ELSE 2

\* where the lines are: the label row is line 2, the header rule line 3
RowLineAt(r) == IF Labelled THEN r + 3 ELSE r + 1

\* the row lines of the text with the values they show
RowLines ==
    {<<OutLines[RowLineAt(r)], rows[r]>> : r \in DOMAIN rows}
    \cup (IF Labelled THEN {<<OutLines[2], labels.items>>} ELSE {})

\* the rule lines of the text with their position tags
RuleLines ==
    {<<OutLines[1], "top">>, <<OutLines[Len(OutLines)], "bottom">>}
    \cup (IF Labelled THEN {<<OutLines[3], "header">>} ELSE {})

\* the characters of column i in a line, between its two borders
CellOf(line, i) == SubSeq(line, Offset(i - 1) + 1, Offset(i) - 1)

\* the extra fill of a value in column i
Pad(obj, i) == Width(i) - (Len(Str(obj)) + 2)

Spaces(n) == [k \in 1..n |-> " "]

\* the number of spaces a text starts with, and ends with
LeadSpaces(text) ==
    Min({p \in 1..(Len(text) + 1) : p = Len(text) + 1 \/ text[p] # " "}) - 1

TrailSpaces(text) ==
    Len(text) - Max({p \in 0..Len(text) : p = 0 \/ text[p] # " "})

Strip(text) == SelectSeq(text, LAMBDA c : c # " ")

\* no stringified value holds a vertical bar
NoBars ==
    /\ \A r \in DOMAIN rows : \A i \in DOMAIN rows[r] :
          \A p \in DOMAIN Str(rows[r][i]) : Str(rows[r][i])[p] # VERTICAL
    /\ \A i \in DOMAIN labels.items :
          \A p \in DOMAIN Str(labels.items[i]) : Str(labels.items[i])[p] # VERTICAL

\* the glyphs the specification gives for each position: left, junction, right
ClaimedGlyphs ==
    [top    |-> <<"U+250C", "U+252C", "U+2510">>,
     header |-> <<"U+251C", "U+253C", "U+2524">>,
     bottom |-> <<"U+2514", "U+2534", "U+2518">>]

---------------------------------------------------------------------------
(* C1 *)

\* C1 as claimed: for every valid input every line of the returned text has
\* the length sum over the columns of (longest stringified length + 2),
\* plus N + 1.
C1_AsClaimed ==
    (Called /\ ValidInput) =>
        /\ Returned
        /\ \A k \in DOMAIN OutLines : Len(OutLines[k]) = SumWidths(N) + N + 1

\* C1: for every valid input every line of the returned text has the same
\* length: sum over the columns of (longest stringified length + 2), plus
\* N + 1, when N >= 1, and 2 (the two border glyphs) when N = 0.
C1_Rectangular ==
    (Called /\ ValidInput) =>
        /\ Returned
        /\ \A k \in DOMAIN OutLines :
              Len(OutLines[k]) = IF N >= 1 THEN SumWidths(N) + N + 1 ELSE 2

C1_Witness ==
    /\ Returned /\ ValidInput
    /\ N = 2 /\ R = 2 /\ labels.present
    /\ Width(1) # Width(2)
    /\ \E r \in DOMAIN rows : Pad(rows[r][1], 1) > 0

---------------------------------------------------------------------------
(* C2 *)

\* C2: a call with ragged rows raises at the assertion of line 37 and
\* returns no text, whatever labels and centered are.
C2_RaggedRejected ==
    (Called /\ Ragged) =>
        /\ Raised
        /\ exc = [type |-> "AssertionError", line |-> 37]
        /\ ret = <<>>

C2_Witness ==
    /\ Raised /\ Ragged
    /\ labels.present /\ labels.items # <<>> /\ centered
    /\ Len(rows[Len(rows)]) < Len(rows[1])

---------------------------------------------------------------------------
(* C3 *)

\* C3 as claimed: a call with valid rows and a label sequence that is
\* present, of whatever length (0 included), and whose length differs from N
\* raises at the assertion of line 41 and returns no text.
C3_AsClaimed ==
    (Called /\ RowsValid /\ labels.present /\ Len(labels.items) # N) =>
        /\ Raised
        /\ exc = [type |-> "AssertionError", line |-> 41]
        /\ ret = <<>>

\* what the code does of C3: the same, for a label sequence that is not empty
C3_NonEmptyLabels ==
    (Called /\ RowsValid /\ labels.present /\ labels.items # <<>>
        /\ Len(labels.items) # N) =>
        /\ Raised
        /\ exc = [type |-> "AssertionError", line |-> 41]
        /\ ret = <<>>

---------------------------------------------------------------------------
(* C4 *)

\* C4: a call with zero rows raises at the assertion of line 37 and returns
\* no text, with or without labels.
C4_EmptyRejected ==
    (Called /\ Len(rows) = 0) =>
        /\ Raised
        /\ exc = [type |-> "AssertionError", line |-> 37]
        /\ ret = <<>>

C4_Witness == Raised /\ Len(rows) = 0 /\ labels.present /\ labels.items # <<>>

---------------------------------------------------------------------------
(* C5 *)

IsRule(line, which) ==
    /\ Len(line) >= 2
    /\ line[1] = ClaimedGlyphs[which][1]
    /\ line[Len(line)] = ClaimedGlyphs[which][3]

\* the line shows the values of the row, in their columns
IsRowOf(line, row) ==
    /\ Len(line) = LineLength
    /\ line[1] = VERTICAL /\ line[Len(line)] = VERTICAL
    /\ \A i \in 1..N : Strip(CellOf(line, i)) = Str(row[i])

\* the lines in their order, the label row and the header rule being there
\* exactly when withLabels
LineSequence(withLabels) ==
    /\ Len(OutLines) = R + (IF withLabels THEN 4 ELSE 2)
    /\ IsRule(OutLines[1], "top")
    /\ withLabels => /\ IsRowOf(OutLines[2], labels.items)
                     /\ IsRule(OutLines[3], "header")
    /\ \A r \in DOMAIN rows :
          IsRowOf(OutLines[r + (IF withLabels THEN 3 ELSE 1)], rows[r])
    /\ IsRule(OutLines[Len(OutLines)], "bottom")
    /\ ~withLabels =>
          \A k \in DOMAIN OutLines :
              OutLines[k][1] \notin {ClaimedGlyphs["header"][j] : j \in 1..3}

\* C5 as claimed: for every valid input the text is the top rule, the label
\* row and the header rule if and only if labels are present, one line per
\* data row in the order of the rows, the bottom rule: R + 4 lines with
\* labels, R + 2 without.
C5_AsClaimed ==
    (Called /\ ValidInput) => (Returned /\ LineSequence(labels.present))

\* what the code does of C5: the same, with labels that are present and not
\* empty in the place of labels that are present
C5_NonEmptyLabels ==
    (Called /\ ValidInput) =>
        (Returned /\ LineSequence(labels.present /\ labels.items # <<>>))

---------------------------------------------------------------------------
(* C6 *)

\* the fill segments of a rule line: what is between its corners, cut at
\* the junctions of its position
RuleSegments(line, which) ==
    SplitOn(SubSeq(line, 2, Len(line) - 1), ClaimedGlyphs[which][2])

\* C6: for every valid input and every column i, the segment of column i in
\* each rule of the returned text is made of fill characters, and their
\* number is the longest stringified length over labels[i] (labels present)
\* and the cells of the column, plus 2: at least len(str(v)) + 2 for each of
\* these values v, and exactly that for one of them.
C6_WidthTight ==
    (Called /\ ValidInput) =>
        /\ Returned
        /\ Len(OutLines) = LineCount
        /\ \A rl \in RuleLines : \A i \in 1..N :
              /\ Len(rl[1]) >= 2
              /\ LET segs == RuleSegments(rl[1], rl[2])
                 IN  /\ Len(segs) = N
                     /\ \A p \in DOMAIN segs[i] : segs[i][p] = HORIZONTAL
                     /\ Len(segs[i]) = Max(StrLens(i)) + 2
                     /\ \A l \in StrLens(i) : Len(segs[i]) >= l + 2
                     /\ \E l \in StrLens(i) : Len(segs[i]) = l + 2

\* the label is the longest value of column 1, a cell the longest of column 2
C6_Witness ==
    /\ Returned /\ ValidInput
    /\ N = 2 /\ R = 2 /\ labels.present
    /\ \A r \in DOMAIN rows :
          Len(Str(labels.items[1])) > Len(Str(rows[r][1]))
    /\ \E r \in DOMAIN rows :
          Len(Str(rows[r][2])) > Len(Str(labels.items[2]))
    /\ \E r1, r2 \in DOMAIN rows :
          Len(Str(rows[r1][2])) # Len(Str(rows[r2][2]))

---------------------------------------------------------------------------
(* C7 *)

\* C7: in centered mode, for every valid input, every cell (label or data)
\* of the returned text is floor(pad/2) spaces, one space, the text, one
\* space, ceil(pad/2) spaces, where pad = column width - (len(text) + 2) is
\* at least 0; the fills left and right of the padded text add up to pad,
\* differ by at most 1, and the right one is the larger exactly when pad is
\* odd.
C7_CenteredPadding ==
    (Called /\ ValidInput /\ centered) =>
        /\ Returned
        /\ Len(OutLines) = LineCount
        /\ \A rl \in RowLines : \A i \in 1..N :
              /\ Len(rl[1]) = LineLength
              /\ LET cell == CellOf(rl[1], i)
                     text == Str(rl[2][i])
                     pad == Pad(rl[2][i], i)
                     left == LeadSpaces(cell) - 1
                     right == TrailSpaces(cell) - 1
                 IN  /\ pad >= 0
                     /\ cell = Spaces(pad \div 2) \o <<" ">> \o text
                                \o <<" ">> \o Spaces(pad - (pad \div 2))
                     /\ left + right = pad
                     /\ left - right \in {-1, 0, 1}
                     /\ right > left <=> pad % 2 = 1

\* cells with pad 1, 2 and 3 in one table, among them a label
C7_Witness ==
    /\ Returned /\ ValidInput /\ centered
    /\ N = 2 /\ labels.present
    /\ \E i \in 1..N : Pad(labels.items[i], i) = 1
    /\ \E i \in 1..N : \E r \in DOMAIN rows : Pad(rows[r][i], i) = 2
    /\ \E i \in 1..N : \E r \in DOMAIN rows : Pad(rows[r][i], i) = 3

---------------------------------------------------------------------------
(* C8 *)

\* C8: in left-justified mode, for every valid input, every cell (label or
\* data) of the returned text is one space, the text, one space and then
\* pad spaces: no fill is before the text, and the cell is as long as the
\* width of its column.
C8_LeftPadding ==
    (Called /\ ValidInput /\ ~centered) =>
        /\ Returned
        /\ Len(OutLines) = LineCount
        /\ \A rl \in RowLines : \A i \in 1..N :
              /\ Len(rl[1]) = LineLength
              /\ LET cell == CellOf(rl[1], i)
                     text == Str(rl[2][i])
                     pad == Pad(rl[2][i], i)
                 IN  /\ pad >= 0
                     /\ cell = <<" ">> \o text \o <<" ">> \o Spaces(pad)
                     /\ LeadSpaces(cell) = 1
                     /\ Len(cell) = Width(i)

C8_Witness ==
    /\ Returned /\ ValidInput /\ ~centered
    /\ N = 2 /\ labels.present
    /\ \E i \in 1..N : Pad(labels.items[i], i) = 1
    /\ \E i \in 1..N : \E r \in DOMAIN rows : Pad(rows[r][i], i) >= 2

---------------------------------------------------------------------------
(* C9 *)

\* the line is the rule of the position: its left corner, one segment of
\* Width(i) fill characters per column, junctions between them, its right
\* corner
IsRuleOf(line, which) ==
    LET g == ClaimedGlyphs[which]
    IN  /\ Len(line) = Offset(N)
        /\ \A p \in DOMAIN line :
              line[p] = IF p = 1 THEN g[1]
                        ELSE IF p = Len(line) THEN g[3]
                        ELSE IF p \in BorderOffsets THEN g[2]
                        ELSE HORIZONTAL
        /\ Len(RuleSegments(line, which)) = N
        /\ Cardinality({p \in DOMAIN line : line[p] = g[2]}) = N - 1

\* C9: for every valid input with N >= 1 columns, each rule of the returned
\* text (top, header, bottom) is the left corner of its position, one
\* segment per column joined by the junction of its position, the right
\* corner, with the glyphs (U+250C, U+252C, U+2510), (U+251C, U+253C,
\* U+2524), (U+2514, U+2534, U+2518); segment i is the fill character
\* U+2500 repeated width[i] times, width[i] including the two padding
\* spaces; there are N segments and N - 1 junctions.
C9_RuleConstruction ==
    (Called /\ ValidInput /\ N >= 1) =>
        /\ Returned
        /\ Len(OutLines) = LineCount
        /\ \A rl \in RuleLines : IsRuleOf(rl[1], rl[2])

C9_Witness ==
    /\ Returned /\ ValidInput
    /\ N = 2 /\ labels.present
    /\ Width(1) # Width(2)
    /\ <<OutLines[3], "header">> \in RuleLines

---------------------------------------------------------------------------
(* C10 *)

\* the offsets of the vertical bars of a row line
Bars(line) == {p \in DOMAIN line : line[p] = VERTICAL}

\* every row line has nBars vertical bars, the first and the last character
\* among them, at the offsets of the corners and junctions of every rule
AlignedWith(nBars) ==
    /\ Returned
    /\ Len(OutLines) = LineCount
    /\ \A rl \in RowLines :
          /\ Cardinality(Bars(rl[1])) = nBars
          /\ 1 \in Bars(rl[1]) /\ Len(rl[1]) \in Bars(rl[1])
          /\ \A ru \in RuleLines :
                {p \in DOMAIN ru[1] : ru[1][p] # HORIZONTAL} = Bars(rl[1])

\* C10 as claimed: for every valid input whose stringified values hold no
\* vertical bar, every label or data line has exactly N + 1 vertical bars,
\* delimiting N cells, at the offsets of the corners and junctions of every
\* rule, centered or not.
C10_AsClaimed ==
    (Called /\ ValidInput /\ NoBars) => AlignedWith(N + 1)

\* C10: the same for N >= 1; for N = 0 every data line is two vertical
\* bars, at the offsets of the two corners of every rule.
C10_Aligned ==
    (Called /\ ValidInput /\ NoBars) =>
        AlignedWith(IF N >= 1 THEN N + 1 ELSE 2)

C10_Witness ==
    /\ Returned /\ ValidInput /\ NoBars /\ centered
    /\ N = 2 /\ R = 2 /\ labels.present
    /\ Width(1) # Width(2)
    /\ \E r \in DOMAIN rows : Pad(rows[r][2], 2) = 1

=============================================================================
